---- MODULE Spec2Model ----
(***************************************************************************)
(* RecruiterAI front end: the Permission Store (PermissionProvider), the   *)
(* Live Update Channel (useWebSocket) with the pages that subscribe to it, *)
(* and the REST clients with their session storage.                        *)
(*                                                                         *)
(* JavaScript values are encoded as strings: "null" and "undefined" stand  *)
(* for the two absent values, and a capability value is one of "true",     *)
(* "false", "other" (any value that is neither boolean) or "absent" (the   *)
(* key is not in the object).                                              *)
(***************************************************************************)
EXTENDS Integers, FiniteSets, Sequences, TLC

\* ------------------------------------------------------------------ bounds
\* Number of loadPermissions() invocations that can be in flight together.
MaxCalls == 2

\* ------------------------------------------------------------- value sets
\* Action keys used by the views (UsersPage, Layout, CandidatesPage).
ActionKeys == {"manage_users", "view_candidates"}
CapValues == {"true", "false", "other", "absent"}
NoCaps == [a \in ActionKeys |-> "absent"]
NullPermissions == [kind |-> "null", map |-> NoCaps]
\* a payload whose `permissions` field is missing (or falsy)
UndefinedPermissions == [kind |-> "undefined", map |-> NoCaps]
Caps(manageUsers, viewCandidates) ==
    [kind |-> "object",
     map |-> [a \in ActionKeys |->
                IF a = "manage_users" THEN manageUsers ELSE viewCandidates]]
RoleValues == {"null", "undefined", "admin", "hr_manager", "recruiter"}
\* bodies the permissions endpoint can answer with on a 2xx:
\* { permissions: {action: bool, ...}, role: string }, well formed or not
ResponseData ==
    { [permissions |-> Caps("true", "true"), role |-> "admin"],
      [permissions |-> Caps("false", "true"), role |-> "recruiter"],
      [permissions |-> Caps("absent", "false"), role |-> "hr_manager"],
      [permissions |-> Caps("other", "absent"), role |-> "undefined"],
      [permissions |-> UndefinedPermissions, role |-> "admin"] }
\* ways the awaited request can throw
RejectKinds == {"network", "status401", "malformed"}
CallIds == 1..MaxCalls
NoSnapshot == [permissions |-> NullPermissions, role |-> "null"]
IdleCall == [pc |-> "idle", fromReady |-> FALSE, pendingRole |-> "null"]

VARIABLES
    \* browser storage (localStorage) and pending navigation
    token, user, pendingNav,
    \* PermissionProvider state cells
    permissions, role, loading,
    \* PermissionProvider control state
    effectRan, calls, running, autoBatch,
    \* what the last settled loadPermissions() did, and the cells before it
    lastOutcome, beforeSettle, successSeen,
    \* UsersPage: "unmounted", or mounted with its own loading flag
    usersPage,
    \* ---- Live Update Channel ----
    \* the page mounted by the router ("none" between two pages), its own
    \* selection cells, and the WebSocket objects created so far
    page, selectedCandidate, selectedBatch, sockets,
    \* useWebSocket state cells of the mounted page's hook
    ws, isConnected, lastMessage,
    \* frames handed to the mounted hook, and the requests its page's
    \* lastMessage effect has issued for the current lastMessage
    frameSeq, fetched,
    \* calls of sendMessage that transmitted a frame, and calls that did not
    sent, ignored,
    \* ---- REST clients ----
    \* requests in flight, the document's location and the last message shown
    requests, path, notice,
    \* ---- ScreeningPage ----
    \* the server: each batch's status ("absent" once deleted), a revision
    \* number of its data, and the frames it has broadcast to this client
    srvStatus, srvRev, inbox,
    \* cells of ScreeningPage (selectedBatch above holds selectedBatch.id,
    \* selectedStatus holds selectedBatch.status)
    batches, selectedStatus, potentials, totalCount, currentPage, pageLoading,
    \* reads of ScreeningPage in flight
    fetches,
    \* cells and request of BatchActionButtons; currentUser.role
    bab, userRole,
    \* the deleted batch whose reload has resolved, the order in which
    \* overlapping potentials reads resolved
    deletedHandled, potLog,
    \* ---- FolderBrowserModal ----
    \* whether the modal is mounted, then its cells (items holds the path whose
    \* folders are listed)
    fbOpen, currentPath, items, fbLoading, selectedFolder, parentPath,
    allowedBasePaths, validationResult,
    \* its requests in flight, and what was handed to onSelectFolder
    validations, browses, handedOver,
    \* ---- UploadPage ----
    files, uploading, results,
    \* the `files` handleUpload iterates over, its position, files picked so far
    queue, pos, picked

sessionVars == <<token, user, pendingNav>>
permVars == <<permissions, role, loading, effectRan, calls, running,
              autoBatch, lastOutcome, beforeSettle, successSeen, usersPage>>
wsVars == <<page, selectedCandidate, selectedBatch, sockets, ws, isConnected,
            lastMessage, frameSeq, fetched>>
sendVars == <<sent, ignored>>
restVars == <<requests, path, notice>>
srvVars == <<srvStatus, srvRev, inbox>>
viewVars == <<batches, selectedStatus, potentials, totalCount, currentPage,
              pageLoading>>
babVars == <<bab, userRole>>
logVars == <<deletedHandled, potLog>>
screenVars == <<srvVars, viewVars, fetches, babVars, logVars>>
folderVars == <<fbOpen, currentPath, items, fbLoading, selectedFolder,
                parentPath, allowedBasePaths, validationResult, validations,
                browses, handedOver>>
uploadVars == <<files, uploading, results, queue, pos, picked>>
\* the useWebSocket cells ScreeningPage does not write
hookVars == <<selectedCandidate, sockets, ws, isConnected, frameSeq, fetched>>
vars == <<sessionVars, permVars, wsVars, sendVars, restVars, screenVars,
          folderVars, uploadVars>>
outsidePerm == <<wsVars, sendVars, restVars, screenVars, folderVars,
                 uploadVars>>
outsideWs == <<sessionVars, permVars, sendVars, restVars, screenVars,
               folderVars, uploadVars>>
outsideRest == <<permVars, wsVars, sendVars, screenVars, folderVars,
                 uploadVars>>
outsideScreen == <<sessionVars, permVars, sendVars, restVars, folderVars,
                   uploadVars>>
outsideFolder == <<sessionVars, permVars, wsVars, sendVars, restVars,
                   screenVars, uploadVars>>
outsideUpload == <<sessionVars, permVars, wsVars, sendVars, restVars,
                   screenVars, folderVars>>

\* ------------------------------------------------- PermissionProvider views
\* a truthiness test in place of `=== true`
hasPermission_Truthy(action) ==
    IF permissions.kind # "object" THEN FALSE
    ELSE permissions.map[action] \in {"true", "other"}

hasPermission(action) ==
    IF permissions.kind # "object" THEN FALSE
    ELSE permissions.map[action] = "true"

RECURSIVE hasAnyPermission(_)
RECURSIVE hasAllPermissions(_)
\* actions.some(action => hasPermission(action)), actions a list
hasAnyPermission(actions) ==
    IF actions = <<>> THEN FALSE
    ELSE IF hasPermission(Head(actions)) THEN TRUE
    ELSE hasAnyPermission(Tail(actions))

\* `some` in place of `every`
hasAllPermissions_Some(actions) == hasAnyPermission(actions)

\* actions.every(action => hasPermission(action))
hasAllPermissions(actions) ==
    IF actions = <<>> THEN TRUE
    ELSE IF ~hasPermission(Head(actions)) THEN FALSE
    ELSE hasAllPermissions(Tail(actions))

isAdmin == role = "admin"
isHRManager == role = "hr_manager"
isRecruiter == role = "recruiter"

\* the wrapper without its `if (loading)` branch
withPermission_NoLoadingBranch(requiredPermission) ==
    IF ~hasPermission(requiredPermission) THEN "access_denied"
    ELSE "component"

\* what the component returned by withPermission(Component, p) renders
withPermission(requiredPermission) ==
    IF loading THEN "loading_placeholder"
    ELSE IF ~hasPermission(requiredPermission) THEN "access_denied"
    ELSE "component"

\* the `fallback` prop of Can and RoleOnly: omitted (null) or given
Fallbacks == {"null", "fallback"}
\* the `roles` prop of RoleOnly
RoleLists == SUBSET {"admin", "hr_manager", "recruiter"}

\* Can without its `if (loading)` branch
Can_NoLoadingBranch(action, fallback) ==
    IF ~hasPermission(action) THEN fallback
    ELSE "children"

\* what <Can do={action} fallback={fallback}> renders
Can(action, fallback) ==
    IF loading THEN "null"
    ELSE IF ~hasPermission(action) THEN fallback
    ELSE "children"

\* RoleOnly without its `if (loading)` branch
RoleOnly_NoLoadingBranch(roles, fallback) ==
    IF role \notin roles THEN fallback
    ELSE "children"

\* what <RoleOnly roles={roles} fallback={fallback}> renders
RoleOnly(roles, fallback) ==
    IF loading THEN "null"
    ELSE IF role \notin roles THEN fallback
    ELSE "children"

\* what UsersPage renders while it is mounted
UsersPageRender ==
    IF ~hasPermission("manage_users") THEN "access_denied"
    ELSE IF usersPage = "loading" THEN "loading_users"
    ELSE "content"

\* --------------------------------------------------------------- storage
ClearSession ==
    /\ token' = "none"
    /\ user' = "none"

\* the response interceptor of `api` on a rejected request
ApiResponseError(status401) ==
    IF status401
    THEN ClearSession /\ pendingNav' = "/login"
    ELSE UNCHANGED <<token, user, pendingNav>>

\* ------------------------------------------------ PermissionProvider actions
InitialCells ==
    /\ permissions = NullPermissions
    /\ role = "null"
    /\ loading = TRUE

\* loadPermissions() up to its first await (or its early return)
loadPermissions(c) ==
    /\ running = 0
    /\ calls[c].pc = "idle"
    /\ \A d \in CallIds : d < c => calls[d].pc # "idle"
    /\ IF token = "none"
       THEN /\ loading' = FALSE
            /\ lastOutcome' = "noToken"
            /\ beforeSettle' = [permissions |-> permissions, role |-> role]
            /\ UNCHANGED calls
       ELSE /\ calls' = [calls EXCEPT ![c] =
                    [pc |-> "fetching", fromReady |-> ~loading,
                     pendingRole |-> "null"]]
            /\ UNCHANGED <<loading, lastOutcome, beforeSettle>>
    /\ UNCHANGED <<token, user, pendingNav, permissions, role, running,
                   autoBatch, successSeen, usersPage>>
    /\ UNCHANGED outsidePerm

\* useEffect(() => { loadPermissions(); }, [])
MountEffect ==
    /\ ~effectRan
    /\ effectRan' = TRUE
    /\ \E c \in CallIds : loadPermissions(c)

\* refreshPermissions: loadPermissions
refreshPermissions ==
    /\ effectRan
    /\ \E c \in CallIds : loadPermissions(c)
    /\ UNCHANGED effectRan

\* the request resolves: setPermissions, setRole, finally setLoading(false).
\* With automatic batching the three updates are rendered together; without
\* it each one is rendered before the next runs.
FetchResolve(c, data) ==
    /\ running = 0
    /\ calls[c].pc = "fetching"
    /\ permissions' = data.permissions
    /\ successSeen' = TRUE
    /\ lastOutcome' = "success"
    /\ beforeSettle' = NoSnapshot
    /\ IF autoBatch
       THEN /\ role' = data.role
            /\ loading' = FALSE
            /\ calls' = [calls EXCEPT ![c] = IdleCall]
            /\ UNCHANGED running
       ELSE /\ calls' = [calls EXCEPT ![c].pc = "setRole",
                                      ![c].pendingRole = data.role]
            /\ running' = c
            /\ UNCHANGED <<role, loading>>
    /\ UNCHANGED <<token, user, pendingNav, effectRan, autoBatch, usersPage>>
    /\ UNCHANGED outsidePerm

SetRoleStep(c) ==
    /\ running = c
    /\ calls[c].pc = "setRole"
    /\ role' = calls[c].pendingRole
    /\ calls' = [calls EXCEPT ![c].pc = "finally", ![c].pendingRole = "null"]
    /\ UNCHANGED <<token, user, pendingNav, permissions, loading, effectRan,
                   running, autoBatch, lastOutcome, beforeSettle, successSeen,
                   usersPage>>
    /\ UNCHANGED outsidePerm

\* a finally block that leaves loading as it is
FinallyStep_KeepsLoading(c) ==
    /\ running = c
    /\ calls[c].pc = "finally"
    /\ calls' = [calls EXCEPT ![c] = IdleCall]
    /\ running' = 0
    /\ UNCHANGED <<token, user, pendingNav, permissions, role, loading,
                   effectRan, autoBatch, lastOutcome, beforeSettle,
                   successSeen, usersPage>>
    /\ UNCHANGED outsidePerm

\* finally { setLoading(false); } after setPermissions and setRole
FinallyStep(c) ==
    /\ running = c
    /\ calls[c].pc = "finally"
    /\ loading' = FALSE
    /\ calls' = [calls EXCEPT ![c] = IdleCall]
    /\ running' = 0
    /\ UNCHANGED <<token, user, pendingNav, permissions, role, effectRan,
                   autoBatch, lastOutcome, beforeSettle, successSeen,
                   usersPage>>
    /\ UNCHANGED outsidePerm

\* a catch block that also resets the cells
FetchReject_ResetsCells(c, kind) ==
    /\ running = 0
    /\ calls[c].pc = "fetching"
    /\ ApiResponseError(kind = "status401")
    /\ permissions' = NullPermissions
    /\ role' = "null"
    /\ loading' = FALSE
    /\ calls' = [calls EXCEPT ![c] = IdleCall]
    /\ lastOutcome' = "error"
    /\ beforeSettle' = [permissions |-> permissions, role |-> role]
    /\ UNCHANGED <<effectRan, running, autoBatch, successSeen, usersPage>>
    /\ UNCHANGED outsidePerm

\* the request throws: catch logs, finally setLoading(false)
FetchReject(c, kind) ==
    /\ running = 0
    /\ calls[c].pc = "fetching"
    /\ ApiResponseError(kind = "status401")
    /\ loading' = FALSE
    /\ calls' = [calls EXCEPT ![c] = IdleCall]
    /\ lastOutcome' = "error"
    /\ beforeSettle' = [permissions |-> permissions, role |-> role]
    /\ UNCHANGED <<permissions, role, effectRan, running, autoBatch,
                   successSeen, usersPage>>
    /\ UNCHANGED outsidePerm

\* the document is loaded again: every component starts from its initial state
Reload ==
    /\ running = 0
    /\ pendingNav # "none"
    /\ pendingNav' = "none"
    /\ permissions' = NullPermissions
    /\ role' = "null"
    /\ loading' = TRUE
    /\ effectRan' = FALSE
    /\ calls' = [c \in CallIds |-> IdleCall]
    /\ lastOutcome' = "none"
    /\ beforeSettle' = NoSnapshot
    /\ successSeen' = FALSE
    /\ usersPage' = "unmounted"
    /\ UNCHANGED <<token, user, running, autoBatch>>
    /\ UNCHANGED outsidePerm

\* login() answered with an access_token; LoginPage then reloads
LoginOk ==
    /\ running = 0
    /\ token = "none"
    /\ pendingNav = "none"
    /\ token' = "tok"
    /\ user' = "profile"
    /\ pendingNav' = "/"
    /\ UNCHANGED <<permissions, role, loading, effectRan, calls, running,
                   autoBatch, lastOutcome, beforeSettle, successSeen,
                   usersPage>>
    /\ UNCHANGED outsidePerm

\* logout(): removes both storage entries
logout == ClearSession

\* Layout.handleLogout: logout(); navigate('/login'); window.location.reload()
handleLogout ==
    /\ running = 0
    /\ token # "none"
    /\ pendingNav = "none"
    /\ logout
    /\ pendingNav' = "/login"
    /\ UNCHANGED <<permissions, role, loading, effectRan, calls, running,
                   autoBatch, lastOutcome, beforeSettle, successSeen,
                   usersPage>>
    /\ UNCHANGED outsidePerm

\* the same application in another tab logs out: the storage is shared, this
\* document is not reloaded
logoutOtherTab ==
    /\ running = 0
    /\ token # "none"
    /\ logout
    /\ UNCHANGED <<pendingNav, permissions, role, loading, effectRan, calls,
                   running, autoBatch, lastOutcome, beforeSettle, successSeen,
                   usersPage>>
    /\ UNCHANGED outsidePerm

\* the /users route mounts UsersPage (its loading cell starts true)
UsersPageMount ==
    /\ running = 0
    /\ usersPage = "unmounted"
    /\ usersPage' = "loading"
    /\ UNCHANGED <<token, user, pendingNav, permissions, role, loading,
                   effectRan, calls, running, autoBatch, lastOutcome,
                   beforeSettle, successSeen>>
    /\ UNCHANGED outsidePerm

\* loadUsers() settles: finally setLoading(false)
loadUsers ==
    /\ running = 0
    /\ usersPage = "loading"
    /\ usersPage' = "loaded"
    /\ UNCHANGED <<token, user, pendingNav, permissions, role, loading,
                   effectRan, calls, running, autoBatch, lastOutcome,
                   beforeSettle, successSeen>>
    /\ UNCHANGED outsidePerm

UsersPageUnmount ==
    /\ running = 0
    /\ usersPage # "unmounted"
    /\ usersPage' = "unmounted"
    /\ UNCHANGED <<token, user, pendingNav, permissions, role, loading,
                   effectRan, calls, running, autoBatch, lastOutcome,
                   beforeSettle, successSeen>>
    /\ UNCHANGED outsidePerm


\* ---------------------------------------------------- Live Update Channel
\* WebSocket objects one document creates (one per page mount)
MaxSockets == 2
\* frames handed to one mounted hook
MaxFrames == 2
\* times the lastMessage effect may issue the same request for one frame
MaxRefetch == 2

\* the routes whose pages call useWebSocket()
Pages == {"screening", "candidates", "jobs", "blacklist", "analytics",
          "activity"}
\* the pages whose lastMessage effect tests lastMessage.type
FilteringPages == Pages \ {"activity"}
BatchEvents == {"batch_paused", "batch_resumed", "batch_cancelled",
                "batch_deleted"}
PotentialEvents == {"potential_promoted", "potential_rejected"}
BlacklistEvents == {"candidate_blacklisted", "candidate_unblacklisted"}
KnownTypes == BatchEvents \cup PotentialEvents \cup BlacklistEvents
                \cup {"new_candidate", "new_comment", "status_change",
                      "job_created"}
FrameTypes == KnownTypes \cup {"unknown_type"}
\* candidate_id / batch_id carried by a frame
Ids == {1, 2}
\* selectedCandidate / selectedBatch: 0 is null
Selections == {0, 1}
FetchKinds == {"loadBatches", "loadPotentials", "loadActivities",
               "loadCandidates", "loadCandidateDetails", "loadJobs",
               "loadBlacklist", "loadData"}
SocketIds == 1..MaxSockets
NullMessage == [seq |-> 0, type |-> "null", id |-> 0]
NoSocket == [readyState |-> "NONE", mounted |-> FALSE, closeCalls |-> 0,
             atUnmount |-> "none"]
NoFetches == [k \in FetchKinds |-> 0]
Bump(f, kinds) == [k \in FetchKinds |-> IF k \in kinds THEN f[k] + 1 ELSE f[k]]

\* the requests one run of each page's lastMessage effect issues
ScreeningPageEffect(m, selBatch) ==
    (IF m.type \in PotentialEvents /\ selBatch # 0
     THEN {"loadPotentials", "loadActivities"} ELSE {})
    \cup
    (IF m.type \in BatchEvents
     THEN {"loadBatches"} \cup
          (IF selBatch # 0 /\ ~(m.type = "batch_deleted" /\ m.id = selBatch)
           THEN {"loadPotentials"} ELSE {})
     ELSE {})

CandidatesPageEffect(m, selCandidate) ==
    (IF m.type = "new_candidate" THEN {"loadCandidates"} ELSE {})
    \cup
    (IF m.type = "new_comment" /\ selCandidate # 0 /\ m.id = selCandidate
     THEN {"loadCandidateDetails"} ELSE {})
    \cup
    (IF m.type = "status_change" /\ selCandidate # 0
     THEN {"loadCandidates"} \cup
          (IF m.id = selCandidate THEN {"loadCandidateDetails"} ELSE {})
     ELSE {})
    \cup
    (IF m.type \in BlacklistEvents
     THEN {"loadCandidates"} \cup
          (IF selCandidate # 0 THEN {"loadCandidateDetails"} ELSE {})
     ELSE {})

\* an effect that tests only that a message exists, as ActivityPage's does
JobsPageEffect_AnyMessage(m) ==
    IF m.type # "null" THEN {"loadJobs"} ELSE {}

JobsPageEffect(m) ==
    IF m.type = "job_created" THEN {"loadJobs"} ELSE {}

BlacklistPageEffect(m) ==
    IF m.type \in BlacklistEvents THEN {"loadBlacklist"} ELSE {}

AnalyticsPageEffect(m) ==
    IF m.type = "new_candidate" THEN {"loadData"} ELSE {}

ActivityPageEffect(m) ==
    IF m.type # "null" THEN {"loadActivities"} ELSE {}

EffectFetches(p, m, selCandidate, selBatch) ==
    CASE p = "screening" -> ScreeningPageEffect(m, selBatch)
      [] p = "candidates" -> CandidatesPageEffect(m, selCandidate)
      [] p = "jobs" -> JobsPageEffect(m)
      [] p = "blacklist" -> BlacklistPageEffect(m)
      [] p = "analytics" -> AnalyticsPageEffect(m)
      [] p = "activity" -> ActivityPageEffect(m)
      [] OTHER -> {}

\* the selected batch after one run of ScreeningPage's lastMessage effect
EffectSelectedBatch(p, m, selBatch) ==
    IF p = "screening" /\ selBatch # 0 /\ m.type = "batch_deleted"
          /\ m.id = selBatch
    THEN 0 ELSE selBatch

MountedSockets == {s \in SocketIds : sockets[s].mounted}
LiveSockets ==
    {s \in SocketIds : sockets[s].readyState \in {"CONNECTING", "OPEN"}}

\* the cleanup returned by the hook's effect
EffectCleanup(s) ==
    [sockets EXCEPT
        ![s].readyState = IF @ = "OPEN" THEN "CLOSING" ELSE @,
        ![s].closeCalls = IF sockets[s].readyState = "OPEN" THEN @ + 1 ELSE @,
        ![s].mounted = FALSE,
        ![s].atUnmount = sockets[s].readyState]

\* a route renders page p: its hook's effect runs `new WebSocket(...)`
MountPage(p, s) ==
    /\ page = "none"
    /\ sockets[s].readyState = "NONE"
    /\ \A t \in SocketIds : t < s => sockets[t].readyState # "NONE"
    /\ page' = p
    /\ sockets' = [sockets EXCEPT ![s] =
            [readyState |-> "CONNECTING", mounted |-> TRUE, closeCalls |-> 0,
             atUnmount |-> "none"]]
    /\ ws' = 0
    /\ isConnected' = FALSE
    /\ lastMessage' = NullMessage
    /\ frameSeq' = 0
    /\ fetched' = NoFetches
    /\ selectedCandidate' = 0
    /\ selectedBatch' = 0
    /\ UNCHANGED outsideWs

\* the route changes: the page and its hook unmount, the cleanup runs
UnmountPage(s) ==
    /\ page # "none"
    /\ sockets[s].mounted
    /\ page' = "none"
    /\ sockets' = EffectCleanup(s)
    /\ frameSeq' = 0
    /\ fetched' = NoFetches
    /\ selectedCandidate' = 0
    /\ selectedBatch' = 0
    /\ UNCHANGED <<ws, isConnected, lastMessage>>
    /\ UNCHANGED outsideWs

\* websocket.onopen (the state setters of an unmounted hook change nothing)
OnOpen(s) ==
    /\ sockets[s].readyState = "CONNECTING"
    /\ sockets' = [sockets EXCEPT ![s].readyState = "OPEN"]
    /\ IF sockets[s].mounted
       THEN isConnected' = TRUE /\ ws' = s
       ELSE UNCHANGED <<isConnected, ws>>
    /\ UNCHANGED <<page, selectedCandidate, selectedBatch, lastMessage,
                   frameSeq, fetched>>
    /\ UNCHANGED outsideWs

\* websocket.onmessage on the mounted hook, and the page's lastMessage effect
\* that the new lastMessage triggers
OnMessage(s, type, id) ==
    /\ sockets[s].readyState = "OPEN"
    /\ sockets[s].mounted
    /\ frameSeq < MaxFrames
    /\ frameSeq' = frameSeq + 1
    /\ lastMessage' = [seq |-> frameSeq + 1, type |-> type, id |-> id]
    /\ fetched' = Bump(NoFetches,
            EffectFetches(page, lastMessage', selectedCandidate, selectedBatch))
    /\ selectedBatch' = EffectSelectedBatch(page, lastMessage', selectedBatch)
    /\ UNCHANGED <<page, selectedCandidate, sockets, ws, isConnected>>
    /\ UNCHANGED outsideWs

\* websocket.onmessage of a socket whose hook has unmounted: the handler
\* runs, setLastMessage on the unmounted hook changes nothing
OnMessageUnmounted(s) ==
    /\ sockets[s].readyState = "OPEN"
    /\ ~sockets[s].mounted
    /\ UNCHANGED vars

\* an onclose handler that opens a new connection for the mounted hook
OnClose_Reconnects(s) ==
    /\ sockets[s].readyState \in {"CONNECTING", "OPEN", "CLOSING"}
    /\ IF sockets[s].mounted /\ (\E t \in SocketIds : sockets[t].readyState = "NONE")
       THEN LET t == CHOOSE t \in SocketIds : sockets[t].readyState = "NONE"
            IN  sockets' = [sockets EXCEPT
                    ![s].readyState = "CLOSED",
                    ![s].mounted = FALSE,
                    ![t] = [readyState |-> "CONNECTING", mounted |-> TRUE,
                            closeCalls |-> 0, atUnmount |-> "none"]]
       ELSE sockets' = [sockets EXCEPT ![s].readyState = "CLOSED"]
    /\ IF sockets[s].mounted
       THEN isConnected' = FALSE
       ELSE UNCHANGED isConnected
    /\ UNCHANGED <<page, selectedCandidate, selectedBatch, ws, lastMessage,
                   frameSeq, fetched>>
    /\ UNCHANGED outsideWs

\* websocket.onclose: the server or the network ends the connection, or the
\* closing handshake completes
OnClose(s) ==
    /\ sockets[s].readyState \in {"CONNECTING", "OPEN", "CLOSING"}
    /\ sockets' = [sockets EXCEPT ![s].readyState = "CLOSED"]
    /\ IF sockets[s].mounted
       THEN isConnected' = FALSE
       ELSE UNCHANGED isConnected
    /\ UNCHANGED <<page, selectedCandidate, selectedBatch, ws, lastMessage,
                   frameSeq, fetched>>
    /\ UNCHANGED outsideWs

\* the connection fails: the browser sets readyState to CLOSED and fires
\* `error` and then `close` in one task; websocket.onerror logs only,
\* websocket.onclose calls setIsConnected(false)
OnError(s) ==
    /\ sockets[s].readyState \in {"CONNECTING", "OPEN"}
    /\ sockets' = [sockets EXCEPT ![s].readyState = "CLOSED"]
    /\ IF sockets[s].mounted
       THEN isConnected' = FALSE
       ELSE UNCHANGED isConnected
    /\ UNCHANGED <<page, selectedCandidate, selectedBatch, ws, lastMessage,
                   frameSeq, fetched>>
    /\ UNCHANGED outsideWs

\* calls of sendMessage one document makes
MaxSends == 2

\* a sendMessage that tests only that the ws cell is set
sendMessage_NoReadyStateCheck ==
    /\ page # "none"
    /\ sent + ignored < MaxSends
    /\ IF ws # 0
       THEN sent' = sent + 1 /\ UNCHANGED ignored
       ELSE ignored' = ignored + 1 /\ UNCHANGED sent
    /\ UNCHANGED <<sessionVars, permVars, wsVars, restVars, screenVars,
                   folderVars, uploadVars>>

\* the mounted page calls sendMessage(message): ws.send only if the ws cell
\* is set and that socket is OPEN; nothing is stored otherwise
sendMessage ==
    /\ page # "none"
    /\ sent + ignored < MaxSends
    /\ IF ws # 0 /\ sockets[ws].readyState = "OPEN"
       THEN sent' = sent + 1 /\ UNCHANGED ignored
       ELSE ignored' = ignored + 1 /\ UNCHANGED sent
    /\ UNCHANGED <<sessionVars, permVars, wsVars, restVars, screenVars,
                   folderVars, uploadVars>>

\* CandidatesPage: setSelectedCandidate (open or close the details); the
\* lastMessage effect has selectedCandidate among its dependencies and runs
\* again with the lastMessage it already saw
SelectCandidate(c) ==
    /\ page = "candidates"
    /\ c # selectedCandidate
    /\ \A k \in FetchKinds : fetched[k] < MaxRefetch
    /\ selectedCandidate' = c
    /\ fetched' = Bump(fetched,
            EffectFetches(page, lastMessage, c, selectedBatch))
    /\ UNCHANGED <<page, selectedBatch, sockets, ws, isConnected, lastMessage,
                   frameSeq>>
    /\ UNCHANGED outsideWs

\* ScreeningPage: setSelectedBatch (the selector, or loadBatches picking the
\* first batch); the lastMessage effect depends on lastMessage alone
SelectBatch(b) ==
    /\ page = "screening"
    /\ b # selectedBatch
    /\ selectedBatch' = b
    /\ UNCHANGED <<page, selectedCandidate, sockets, ws, isConnected,
                   lastMessage, frameSeq, fetched>>
    /\ UNCHANGED outsideWs

WsIdle ==
    /\ page = "none"
    /\ selectedCandidate = 0
    /\ selectedBatch = 0
    /\ sockets = [s \in SocketIds |-> NoSocket]
    /\ ws = 0
    /\ isConnected = FALSE
    /\ lastMessage = NullMessage
    /\ frameSeq = 0
    /\ fetched = NoFetches
    /\ sent = 0
    /\ ignored = 0

WsNext ==
    \/ \E p \in Pages, s \in SocketIds : MountPage(p, s)
    \/ \E s \in SocketIds : UnmountPage(s)
    \/ \E s \in SocketIds : OnOpen(s)
    \/ \E s \in SocketIds, type \in FrameTypes, id \in Ids : OnMessage(s, type, id)
    \/ \E s \in SocketIds : OnMessageUnmounted(s)
    \/ \E s \in SocketIds : OnClose(s)
    \/ \E s \in SocketIds : OnError(s)
    \/ \E c \in Selections : SelectCandidate(c)
    \/ \E b \in Selections : SelectBatch(b)

\* ------------------------------------------------------------ REST clients
\* requests one document has in flight together
MaxRequests == 2

\* the calls modelled, by the axios instance that sends them: `api`
\* (services/api), the bare axios import of ActivityPage, `authApi`
ApiCalls == {"getCandidates", "getCandidate", "updateCandidateStatus",
             "addComment", "getComments"}
\* the calls a user action starts with (the others are reads)
ActionCalls == {"updateCandidateStatus", "addComment"}
AxiosCalls == {"loadActivities"}
AuthCalls == {"login"}
Statuses == {"200", "401", "409", "500", "network"}
ReqIds == 1..MaxRequests
NoRequests == [r \in ReqIds |-> "idle"]

\* a login that stores the token alone
StoreSession_TokenOnly ==
    /\ token' = "tok"
    /\ UNCHANGED user

\* login(): localStorage.setItem('token', ...); localStorage.setItem('user', ...)
StoreSession ==
    /\ token' = "tok"
    /\ user' = "profile"

\* a view calls one of the REST functions
Issue(r, call) ==
    /\ pendingNav = "none"
    /\ requests[r] = "idle"
    /\ \A q \in ReqIds : q < r => requests[q] # "idle"
    /\ IF call \in AuthCalls THEN path = "/login" ELSE path = "app"
    /\ requests' = [requests EXCEPT ![r] = call]
    /\ UNCHANGED <<path, notice, sessionVars>>
    /\ UNCHANGED outsideRest

\* a request sent through `api` settles: the response interceptor, then the
\* caller's try/catch
RespondApi(r, status) ==
    /\ requests[r] \in ApiCalls
    /\ IF status = "200"
       THEN UNCHANGED sessionVars
       ELSE ApiResponseError(status = "401")
    /\ IF requests[r] = "updateCandidateStatus"
       THEN \* handleStatusChange
            /\ notice' = IF status = "200" THEN notice
                         ELSE IF status = "409" THEN "modified_by_another_user"
                         ELSE "failed_to_update_status"
            /\ requests' = [requests EXCEPT ![r] =
                    IF status \in {"200", "409"} THEN "getCandidate"
                    ELSE "idle"]
       ELSE IF requests[r] = "addComment"
       THEN \* handleAddComment: its catch block only logs
            /\ requests' = [requests EXCEPT ![r] =
                    IF status = "200" THEN "getComments" ELSE "idle"]
            /\ UNCHANGED notice
       ELSE /\ requests' = [requests EXCEPT ![r] = "idle"]
            /\ UNCHANGED notice
    /\ UNCHANGED path
    /\ UNCHANGED outsideRest

\* ActivityPage.loadActivities settles: axios.get outside `api`, try/catch
RespondAxios(r, status) ==
    /\ requests[r] \in AxiosCalls
    /\ requests' = [requests EXCEPT ![r] = "idle"]
    /\ UNCHANGED <<path, notice, sessionVars>>
    /\ UNCHANGED outsideRest

\* login() settles (authApi has no response interceptor), then
\* LoginPage.handleLogin
RespondLogin(r, status, withToken) ==
    /\ requests[r] \in AuthCalls
    /\ requests' = [requests EXCEPT ![r] = "idle"]
    /\ IF status = "200"
       THEN /\ IF withToken THEN StoreSession ELSE UNCHANGED <<token, user>>
            /\ pendingNav' = "/"
            /\ UNCHANGED notice
       ELSE /\ notice' = "login_error"
            /\ UNCHANGED sessionVars
    /\ UNCHANGED path
    /\ UNCHANGED outsideRest

\* the document navigates: requests in flight are dropped; the routes under
\* "/*" render for a stored token and the login view otherwise
Navigate ==
    /\ pendingNav # "none"
    /\ pendingNav' = "none"
    /\ path' = IF pendingNav = "/login" \/ token = "none"
               THEN "/login" ELSE "app"
    /\ requests' = NoRequests
    /\ notice' = "none"
    /\ UNCHANGED <<token, user>>
    /\ UNCHANGED outsideRest

RestIdle ==
    /\ requests = NoRequests
    /\ notice = "none"


\* ------------------------------------------------------------ ScreeningPage
\* reads of ScreeningPage in flight together
MaxFetches == 2
\* changes the server applies (batch lifecycle and potentials)
MaxChanges == 2

BatchIds == {1, 2}
BatchStatuses == {"processing", "paused", "ready", "completed", "cancelled",
                  "error"}
\* params: { page, per_page: 100 }
PerPage == 100
\* data.total of the potentials of batch b
total(b) == IF b = 1 THEN 250 ELSE 50
\* Math.ceil(totalCount / 100)
PageCount(n) == (n + PerPage - 1) \div PerPage
Min(a, b) == IF a < b THEN a ELSE b
Max(a, b) == IF a > b THEN a ELSE b
FetchIds == 1..MaxFetches
NoList == [b \in BatchIds |-> "absent"]
\* a read: its closure (sel, selPage: selectedBatch and currentPage of the
\* render that called it), its arguments (batchId, page), what follows it in
\* its caller (then), the body it was answered with (list, rev), its rank
\* among the reads in flight (age) and the deleted batch it was issued for
NoFetch == [kind |-> "none", pc |-> "none", sel |-> 0, selPage |-> 0,
            batchId |-> 0, page |-> 0, then |-> "none", list |-> NoList,
            rev |-> 0, age |-> 0, cause |-> 0]
NoPotentials == [batch |-> 0, page |-> 0, rev |-> 0]
\* BatchActionButtons: its cells and its request
BabIdle == [loading |-> FALSE, showCancelModal |-> FALSE,
            showDeleteModal |-> FALSE, action |-> "none", pc |-> "none",
            batchId |-> 0, sel |-> 0, selPage |-> 0]
BatchActions == {"pause", "resume", "cancel", "delete"}

\* data[0]
First(list) ==
    IF \E b \in BatchIds : list[b] # "absent"
    THEN CHOOSE b \in BatchIds :
            list[b] # "absent" /\ \A c \in BatchIds : list[c] # "absent" => b <= c
    ELSE 0

InFlight(fs) == {f \in FetchIds : fs[f].kind # "none"}
FirstFree(fs) ==
    CHOOSE f \in FetchIds :
        fs[f].kind = "none" /\ \A g \in FetchIds : g < f => fs[g].kind # "none"
Place(fs, req) ==
    [fs EXCEPT ![FirstFree(fs)] =
        [req EXCEPT !.age = Cardinality(InFlight(fs)) + 1]]
RECURSIVE PlaceAll(_, _)
PlaceAll(fs, reqs) ==
    IF reqs = <<>> THEN fs ELSE PlaceAll(Place(fs, Head(reqs)), Tail(reqs))
Room(fs, reqs) == Cardinality(FetchIds \ InFlight(fs)) >= Len(reqs)
\* read f has settled
Settled(fs, f) ==
    [g \in FetchIds |->
        IF g = f THEN NoFetch
        ELSE IF fs[g].age > fs[f].age THEN [fs[g] EXCEPT !.age = @ - 1]
        ELSE fs[g]]

\* api.get('/api/screening/batches') called from a render whose selectedBatch
\* and currentPage are sel and selPage
loadBatchesCall(sel, selPage, then, cause) ==
    [NoFetch EXCEPT !.kind = "loadBatches", !.pc = "sent", !.sel = sel,
                    !.selPage = selPage, !.then = then, !.cause = cause]

\* api.get(`/api/screening/potentials/${batchId}`, {params: {page, ...}})
loadPotentialsCall(batchId, page_) ==
    [NoFetch EXCEPT !.kind = "loadPotentials", !.pc = "sent",
                    !.batchId = batchId, !.page = page_]

\* useEffect(..., [selectedBatch, currentPage]): loadPotentials(selectedBatch.id)
\* is called without a page, so its `page = 1` default applies
SelectedBatchEffect(sel) ==
    IF sel # 0 THEN <<loadPotentialsCall(sel, 1)>> ELSE <<>>

\* the route renders ScreeningPage: useEffect(() => { loadBatches(); }, [])
ScreeningPageMount ==
    /\ page = "none"
    /\ page' = "screening"
    /\ fetches' = PlaceAll(fetches, <<loadBatchesCall(0, 1, "none", 0)>>)
    /\ UNCHANGED <<selectedBatch, lastMessage, deletedHandled, potLog>>
    /\ UNCHANGED <<srvVars, viewVars, babVars, hookVars, outsideScreen>>

\* ---- the server ----
Allows(action, status) ==
    CASE action = "pause" -> status = "processing"
      [] action = "resume" -> status = "paused"
      [] action = "cancel" -> status \in {"processing", "paused"}
      [] action = "delete" -> status \in {"ready", "completed", "cancelled",
                                          "error"}
      [] OTHER -> FALSE
After(action, status) ==
    CASE action = "pause" -> "paused"
      [] action = "resume" -> "processing"
      [] action = "cancel" -> "cancelled"
      [] action = "delete" -> "absent"
      [] OTHER -> status
EventOf(action) ==
    CASE action = "pause" -> "batch_paused"
      [] action = "resume" -> "batch_resumed"
      [] action = "cancel" -> "batch_cancelled"
      [] action = "delete" -> "batch_deleted"
      [] OTHER -> "potential_promoted"

\* the server applies a batch action and broadcasts its event
Apply(action, b) ==
    /\ srvRev < MaxChanges
    /\ Allows(action, srvStatus[b])
    /\ srvStatus' = [srvStatus EXCEPT ![b] = After(action, @)]
    /\ srvRev' = srvRev + 1
    /\ inbox' = Append(inbox, [type |-> EventOf(action), id |-> b])

\* another user changes a batch, or promotes a potential of batch b
OtherUser(action, b) ==
    /\ page = "screening"
    /\ IF action = "promote"
       THEN /\ srvRev < MaxChanges
            /\ srvStatus[b] # "absent"
            /\ srvRev' = srvRev + 1
            /\ inbox' = Append(inbox, [type |-> "potential_promoted", id |-> b])
            /\ UNCHANGED srvStatus
       ELSE Apply(action, b)
    /\ UNCHANGED <<page, selectedBatch, lastMessage, fetches>>
    /\ UNCHANGED <<viewVars, babVars, logVars, hookVars, outsideScreen>>

\* the server answers read f from its state at that moment
Serve(f) ==
    /\ fetches[f].pc = "sent"
    /\ fetches' = [fetches EXCEPT
            ![f].pc = IF fetches[f].kind = "loadPotentials"
                         /\ srvStatus[fetches[f].batchId] = "absent"
                      THEN "refused" ELSE "answered",
            ![f].list = IF fetches[f].kind = "loadBatches"
                        THEN srvStatus ELSE NoList,
            ![f].rev = srvRev]
    /\ UNCHANGED <<page, selectedBatch, lastMessage>>
    /\ UNCHANGED <<srvVars, viewVars, babVars, logVars, hookVars,
                   outsideScreen>>

\* ---- ScreeningPage ----
\* the lastMessage effect (ScreeningPageEffect, EffectSelectedBatch) for the
\* frame at the head of the inbox, with the reads it issues
OnScreeningMessage ==
    /\ page = "screening"
    /\ inbox # <<>>
    /\ LET m == [seq |-> 1, type |-> Head(inbox).type, id |-> Head(inbox).id]
           kinds == ScreeningPageEffect(m, selectedBatch)
           sel == EffectSelectedBatch("screening", m, selectedBatch)
           reqs ==
             (IF m.type \in PotentialEvents /\ "loadPotentials" \in kinds
              THEN <<loadPotentialsCall(selectedBatch, 1)>> ELSE <<>>)
             \o (IF "loadBatches" \in kinds
                 THEN <<loadBatchesCall(selectedBatch, currentPage, "none",
                            IF sel # selectedBatch THEN selectedBatch ELSE 0)>>
                 ELSE <<>>)
             \o (IF m.type \in BatchEvents /\ "loadPotentials" \in kinds
                 THEN <<loadPotentialsCall(selectedBatch, 1)>> ELSE <<>>)
       IN  /\ Room(fetches, reqs)
           /\ lastMessage' = m
           /\ selectedBatch' = sel
           /\ selectedStatus' = IF sel = 0 THEN "none" ELSE selectedStatus
           /\ fetches' = PlaceAll(fetches, reqs)
    /\ inbox' = Tail(inbox)
    /\ UNCHANGED <<page, srvStatus, srvRev, batches, potentials, totalCount,
                   currentPage, pageLoading, deletedHandled, potLog>>
    /\ UNCHANGED <<babVars, hookVars, outsideScreen>>

\* loadBatches resumes after its await with the `selectedBatch` of the render
\* that called it; the selectedBatch effect runs if setSelectedBatch was
\* called; handleBatchUpdated then goes on to its loadPotentials
ResolveBatches(f) ==
    /\ fetches[f].kind = "loadBatches"
    /\ fetches[f].pc = "answered"
    /\ LET data == fetches[f].list
           sel == fetches[f].sel
           missing == sel # 0 /\ data[sel] = "absent"
           sets == missing \/ (First(data) # 0 /\ sel = 0)
           new == IF sets THEN First(data) ELSE selectedBatch
           effect == sets /\ (new # 0 \/ selectedBatch # 0)
           reqs ==
             (IF fetches[f].then = "loadPotentials" /\ sel # 0
              THEN <<loadPotentialsCall(sel, fetches[f].selPage)>> ELSE <<>>)
             \o (IF effect THEN SelectedBatchEffect(new) ELSE <<>>)
       IN  /\ Room(Settled(fetches, f), reqs)
           /\ batches' = data
           /\ selectedBatch' = new
           /\ selectedStatus' = IF ~sets THEN selectedStatus
                                ELSE IF new = 0 THEN "none" ELSE data[new]
           /\ fetches' = PlaceAll(Settled(fetches, f), reqs)
    /\ pageLoading' = FALSE
    /\ deletedHandled' = IF fetches[f].cause # 0 THEN fetches[f].cause
                         ELSE deletedHandled
    \* {batches.length > 0 && ...}: an empty list unmounts BatchActionButtons
    /\ bab' = IF First(fetches[f].list) = 0
              THEN [bab EXCEPT !.loading = FALSE, !.showCancelModal = FALSE,
                               !.showDeleteModal = FALSE]
              ELSE bab
    /\ UNCHANGED <<page, lastMessage, potentials, totalCount, currentPage,
                   potLog, userRole>>
    /\ UNCHANGED <<srvVars, hookVars, outsideScreen>>

\* a resolve that drops the body when a read issued later has already resolved
ResolvePotentials_DropsSuperseded(f) ==
    /\ fetches[f].kind = "loadPotentials"
    /\ fetches[f].pc = "answered"
    /\ IF potLog.phase = "laterFirst"
       THEN UNCHANGED <<potentials, totalCount>>
       ELSE /\ potentials' = [batch |-> fetches[f].batchId,
                              page |-> fetches[f].page, rev |-> fetches[f].rev]
            /\ totalCount' = total(fetches[f].batchId)
    /\ fetches' = Settled(fetches, f)
    /\ potLog' =
         IF \E g \in FetchIds : fetches[g].kind = "loadPotentials"
                                   /\ fetches[g].age < fetches[f].age
         THEN [phase |-> "laterFirst", rev |-> fetches[f].rev]
         ELSE IF potLog.phase = "laterFirst"
         THEN [phase |-> "earlierLast", rev |-> potLog.rev]
         ELSE [phase |-> "none", rev |-> 0]
    /\ UNCHANGED <<page, selectedBatch, lastMessage, batches, selectedStatus,
                   currentPage, pageLoading, deletedHandled>>
    /\ UNCHANGED <<srvVars, babVars, hookVars, outsideScreen>>

\* loadPotentials resumes after its await: setPotentials, setTotalCount
ResolvePotentials(f) ==
    /\ fetches[f].kind = "loadPotentials"
    /\ fetches[f].pc = "answered"
    /\ potentials' = [batch |-> fetches[f].batchId, page |-> fetches[f].page,
                      rev |-> fetches[f].rev]
    /\ totalCount' = total(fetches[f].batchId)
    /\ fetches' = Settled(fetches, f)
    /\ potLog' =
         IF \E g \in FetchIds : fetches[g].kind = "loadPotentials"
                                   /\ fetches[g].age < fetches[f].age
         THEN [phase |-> "laterFirst", rev |-> fetches[f].rev]
         ELSE IF potLog.phase = "laterFirst"
         THEN [phase |-> "earlierLast", rev |-> potLog.rev]
         ELSE [phase |-> "none", rev |-> 0]
    /\ UNCHANGED <<page, selectedBatch, lastMessage, batches, selectedStatus,
                   currentPage, pageLoading, deletedHandled>>
    /\ UNCHANGED <<srvVars, babVars, hookVars, outsideScreen>>

\* a read throws (network, error status): the catch logs; loadBatches still
\* runs its finally and its caller goes on
RejectFetch(f) ==
    /\ fetches[f].pc \in {"sent", "refused"}
    /\ LET reqs == IF fetches[f].kind = "loadBatches"
                      /\ fetches[f].then = "loadPotentials" /\ fetches[f].sel # 0
                   THEN <<loadPotentialsCall(fetches[f].sel, fetches[f].selPage)>>
                   ELSE <<>>
       IN  /\ fetches' = PlaceAll(Settled(fetches, f), reqs)
    /\ pageLoading' = IF fetches[f].kind = "loadBatches" THEN FALSE
                      ELSE pageLoading
    /\ UNCHANGED <<page, selectedBatch, lastMessage, batches, selectedStatus,
                   potentials, totalCount, currentPage, deletedHandled, potLog>>
    /\ UNCHANGED <<srvVars, babVars, hookVars, outsideScreen>>

\* what the page shows
SelectorShown == ~pageLoading /\ First(batches) # 0
ButtonsShown == SelectorShown /\ selectedBatch # 0
ModalShown == ButtonsShown /\ (bab.showCancelModal \/ bab.showDeleteModal)
PaginationShown == ~pageLoading /\ First(batches) # 0 /\ totalCount > PerPage

\* the batch selector's onChange
SelectBatchOption(b) ==
    /\ page = "screening"
    /\ SelectorShown /\ ~ModalShown
    /\ batches[b] # "absent"
    /\ b # selectedBatch
    /\ Room(fetches, SelectedBatchEffect(b))
    /\ selectedBatch' = b
    /\ selectedStatus' = batches[b]
    /\ currentPage' = 1
    /\ fetches' = PlaceAll(fetches, SelectedBatchEffect(b))
    /\ UNCHANGED <<page, lastMessage, batches, potentials, totalCount,
                   pageLoading, deletedHandled, potLog>>
    /\ UNCHANGED <<srvVars, babVars, hookVars, outsideScreen>>

\* Previous / Next: setCurrentPage, then the [selectedBatch, currentPage]
\* effect
TurnPage(next) ==
    /\ page = "screening"
    /\ PaginationShown /\ ~ModalShown
    /\ IF next
       THEN /\ ~(currentPage >= PageCount(totalCount))
            /\ currentPage' = Min(PageCount(totalCount), currentPage + 1)
       ELSE /\ currentPage # 1
            /\ currentPage' = Max(1, currentPage - 1)
    /\ Room(fetches, SelectedBatchEffect(selectedBatch))
    /\ fetches' = PlaceAll(fetches, SelectedBatchEffect(selectedBatch))
    /\ UNCHANGED <<page, selectedBatch, lastMessage, batches, selectedStatus,
                   potentials, totalCount, pageLoading, deletedHandled, potLog>>
    /\ UNCHANGED <<srvVars, babVars, hookVars, outsideScreen>>

\* the Refresh button: selectedBatch && loadPotentials(selectedBatch.id, currentPage)
Refresh ==
    /\ page = "screening"
    /\ ButtonsShown /\ ~ModalShown
    /\ Room(fetches, <<loadPotentialsCall(selectedBatch, currentPage)>>)
    /\ fetches' = PlaceAll(fetches,
                     <<loadPotentialsCall(selectedBatch, currentPage)>>)
    /\ UNCHANGED <<page, selectedBatch, lastMessage, deletedHandled, potLog>>
    /\ UNCHANGED <<srvVars, viewVars, babVars, hookVars, outsideScreen>>

\* ---- BatchActionButtons({ batch: selectedBatch, onBatchUpdated, userRole }) ----
isProcessing(status) == status = "processing"
isPaused(status) == status = "paused"
isCompleted(status) == status = "ready" \/ status = "completed"
isCancelled(status) == status = "cancelled"
isError(status) == status = "error"

\* the buttons rendered for batch.status and userRole
ButtonsFor(status, role_) ==
    (IF isProcessing(status) THEN {"pause"} ELSE {})
    \cup (IF isPaused(status) THEN {"resume"} ELSE {})
    \cup (IF isProcessing(status) \/ isPaused(status) THEN {"cancel"} ELSE {})
    \cup (IF (isCompleted(status) \/ isCancelled(status) \/ isError(status))
             /\ role_ = "admin"
          THEN {"delete"} ELSE {})

\* the actions a click can start in the current render: the buttons, and the
\* confirm button of a modal left open
Offered ==
    IF ~ButtonsShown THEN {}
    ELSE ButtonsFor(selectedStatus, userRole)
         \cup (IF bab.showCancelModal THEN {"cancel"} ELSE {})
         \cup (IF bab.showDeleteModal THEN {"delete"} ELSE {})

\* handlePause / handleResume / handleCancel / handleDelete up to the await
Send(action) ==
    [bab EXCEPT !.loading = TRUE, !.action = action, !.pc = "sent",
                !.batchId = selectedBatch, !.sel = selectedBatch,
                !.selPage = currentPage]

\* Pause and Resume call their handler; Cancel and Delete open a modal
ClickButton(action) ==
    /\ page = "screening"
    /\ ButtonsShown /\ ~ModalShown
    /\ action \in ButtonsFor(selectedStatus, userRole)
    /\ ~bab.loading
    /\ bab' = CASE action = "cancel" -> [bab EXCEPT !.showCancelModal = TRUE]
                [] action = "delete" -> [bab EXCEPT !.showDeleteModal = TRUE]
                [] OTHER -> Send(action)
    /\ UNCHANGED <<page, selectedBatch, lastMessage, fetches, userRole>>
    /\ UNCHANGED <<srvVars, viewVars, logVars, hookVars, outsideScreen>>

\* "Yes, Cancel Batch" / "Yes, Delete Batch" / the button that closes a modal
ClickModal(confirm) ==
    /\ page = "screening"
    /\ ModalShown
    /\ ~bab.loading
    /\ bab' = IF ~confirm
              THEN [bab EXCEPT !.showCancelModal = FALSE,
                               !.showDeleteModal = FALSE]
              ELSE IF bab.showCancelModal THEN Send("cancel")
              ELSE Send("delete")
    /\ UNCHANGED <<page, selectedBatch, lastMessage, fetches, userRole>>
    /\ UNCHANGED <<srvVars, viewVars, logVars, hookVars, outsideScreen>>

\* the server answers the action's request
ServeAction(ok) ==
    /\ bab.pc = "sent"
    /\ IF ok
       THEN Apply(bab.action, bab.batchId) /\ bab' = [bab EXCEPT !.pc = "ok"]
       ELSE UNCHANGED srvVars /\ bab' = [bab EXCEPT !.pc = "failed"]
    /\ UNCHANGED <<page, selectedBatch, lastMessage, fetches, userRole>>
    /\ UNCHANGED <<viewVars, logVars, hookVars, outsideScreen>>

\* the handler resumes: on success it closes its modal and calls
\* onBatchUpdated (handleBatchUpdated of the render of the click: loadBatches,
\* then loadPotentials(selectedBatch.id, currentPage)); on failure it alerts
SettleAction ==
    /\ bab.pc \in {"ok", "failed"}
    /\ LET reqs == IF bab.pc = "ok"
                   THEN <<loadBatchesCall(bab.sel, bab.selPage,
                                          "loadPotentials", 0)>>
                   ELSE <<>>
       IN  /\ Room(fetches, reqs)
           /\ fetches' = PlaceAll(fetches, reqs)
    /\ bab' = [BabIdle EXCEPT
            !.showCancelModal = bab.showCancelModal
                                  /\ ~(bab.pc = "ok" /\ bab.action = "cancel"),
            !.showDeleteModal = bab.showDeleteModal
                                  /\ ~(bab.pc = "ok" /\ bab.action = "delete")]
    /\ UNCHANGED <<page, selectedBatch, lastMessage, userRole>>
    /\ UNCHANGED <<srvVars, viewVars, logVars, hookVars, outsideScreen>>

\* the batches the server starts with
InitialBatches == [b \in BatchIds |-> IF b = 1 THEN "processing" ELSE "cancelled"]

ScreenIdle ==
    /\ srvRev = 0
    /\ inbox = <<>>
    /\ batches = NoList
    /\ selectedStatus = "none"
    /\ potentials = NoPotentials
    /\ totalCount = 0
    /\ currentPage = 1
    /\ pageLoading = TRUE
    /\ fetches = [f \in FetchIds |-> NoFetch]
    /\ bab = BabIdle
    /\ deletedHandled = 0
    /\ potLog = [phase |-> "none", rev |-> 0]

\* ------------------------------------------------------- FolderBrowserModal
\* validateFolder requests in flight together
MaxValidations == 2
\* loadDirectory requests in flight together
MaxBrowses == 2

FolderPaths == {"/", "/a", "/b"}
\* the directories the server lists under a path
Children(p) == IF p = "/" THEN {"/a", "/b"} ELSE {}
\* data.parent_path
Parent(p) == IF p = "/" THEN "null" ELSE "/"
\* data.allowed_base_paths
AllowedBasePaths == {"/a"}
\* what /api/filesystem/validate finds in a folder
ValidOnDisk(p) == p = "/a"
\* renderBreadcrumb: Home and one button per part of currentPath
Breadcrumbs(p) == {"/"} \cup (IF p = "/" THEN {} ELSE {p})
\* validationResult: null, or the body of a response (of: the path asked)
NoValidation == [set |-> FALSE, valid |-> FALSE, of |-> "null"]
Remove(seq, i) == SubSeq(seq, 1, i - 1) \o SubSeq(seq, i + 1, Len(seq))

\* initialPath={formData.folder_path || '/'}: the folder chosen before, if any
initialPath == IF handedOver = "none" THEN "/" ELSE handedOver

\* useState(...) of a fresh modal
FolderCells(path_) ==
    /\ currentPath' = path_
    /\ items' = "none"
    /\ fbLoading' = TRUE
    /\ selectedFolder' = "null"
    /\ parentPath' = "null"
    /\ allowedBasePaths' = {}
    /\ validationResult' = NoValidation

\* the parent renders the modal: useEffect(() => loadDirectory(currentPath))
OpenFolderBrowser ==
    /\ ~fbOpen
    /\ fbOpen' = TRUE
    /\ FolderCells(initialPath)
    /\ browses' = <<initialPath>>
    /\ validations' = <<>>
    /\ UNCHANGED handedOver
    /\ UNCHANGED outsideFolder

\* setCurrentPath(p); when the path changes the [currentPath] effect calls
\* loadDirectory(p): setLoading(true), setValidationResult(null), api.get
GoTo(p) ==
    /\ currentPath' = p
    /\ IF p # currentPath
       THEN /\ Len(browses) < MaxBrowses
            /\ fbLoading' = TRUE
            /\ validationResult' = NoValidation
            /\ browses' = Append(browses, p)
       ELSE UNCHANGED <<fbLoading, validationResult, browses>>

\* loadDirectory resumes after its await
RespondBrowse(i, ok) ==
    /\ fbOpen
    /\ i \in 1..Len(browses)
    /\ LET p == browses[i]
       IN  IF ok
           THEN /\ items' = p
                /\ parentPath' = Parent(p)
                /\ allowedBasePaths' = AllowedBasePaths
                /\ currentPath' = p
                /\ IF p # currentPath
                   THEN /\ fbLoading' = TRUE
                        /\ validationResult' = NoValidation
                        /\ browses' = Append(Remove(browses, i), p)
                   ELSE /\ fbLoading' = FALSE
                        /\ browses' = Remove(browses, i)
                        /\ UNCHANGED validationResult
           ELSE /\ items' = "none"
                /\ fbLoading' = FALSE
                /\ browses' = Remove(browses, i)
                /\ UNCHANGED <<parentPath, allowedBasePaths, currentPath,
                               validationResult>>
    /\ UNCHANGED <<fbOpen, selectedFolder, validations, handedOver>>
    /\ UNCHANGED outsideFolder

\* a click on a folder row: setSelectedFolder(folder); validateFolder(path)
handleFolderSelect(p) ==
    /\ fbOpen /\ ~fbLoading
    /\ items # "none" /\ p \in Children(items)
    /\ Len(validations) < MaxValidations
    /\ selectedFolder' = p
    /\ validations' = Append(validations, p)
    /\ UNCHANGED <<fbOpen, currentPath, items, fbLoading, parentPath,
                   allowedBasePaths, validationResult, browses, handedOver>>
    /\ UNCHANGED outsideFolder

\* a double click on a folder row, after its two clicks have selected it
handleFolderClick(p) ==
    /\ fbOpen /\ ~fbLoading
    /\ items # "none" /\ p \in Children(items)
    /\ selectedFolder = p
    /\ GoTo(p)
    /\ selectedFolder' = "null"
    /\ UNCHANGED <<fbOpen, items, parentPath, allowedBasePaths, validations,
                   handedOver>>
    /\ UNCHANGED outsideFolder

handleGoUp ==
    /\ fbOpen
    /\ parentPath # "null"
    /\ GoTo(parentPath)
    /\ selectedFolder' = "null"
    /\ UNCHANGED <<fbOpen, items, parentPath, allowedBasePaths, validations,
                   handedOver>>
    /\ UNCHANGED outsideFolder

handleSelectQuickPath(p) ==
    /\ fbOpen
    /\ p \in allowedBasePaths
    /\ GoTo(p)
    /\ selectedFolder' = "null"
    /\ UNCHANGED <<fbOpen, items, parentPath, allowedBasePaths, validations,
                   handedOver>>
    /\ UNCHANGED outsideFolder

\* a breadcrumb button: onClick={() => setCurrentPath(path)}
ClickBreadcrumb(p) ==
    /\ fbOpen
    /\ p \in Breadcrumbs(currentPath)
    /\ p # currentPath
    /\ GoTo(p)
    /\ UNCHANGED <<fbOpen, items, selectedFolder, parentPath,
                   allowedBasePaths, validations, handedOver>>
    /\ UNCHANGED outsideFolder

\* validateFolder resumes after its await: the body, or {valid: false} from
\* its catch
RespondValidate(i, ok) ==
    /\ fbOpen
    /\ i \in 1..Len(validations)
    /\ validationResult' = [set |-> TRUE,
                            valid |-> ok /\ ValidOnDisk(validations[i]),
                            of |-> validations[i]]
    /\ validations' = Remove(validations, i)
    /\ UNCHANGED <<fbOpen, currentPath, items, fbLoading, selectedFolder,
                   parentPath, allowedBasePaths, browses, handedOver>>
    /\ UNCHANGED outsideFolder

\* disabled={!selectedFolder || !validationResult?.valid}
ConfirmEnabled ==
    fbOpen /\ selectedFolder # "null" /\ validationResult.valid

\* onClose(): the parent unmounts the modal; what its requests resolve to
\* afterwards is dropped
Unmount ==
    /\ fbOpen' = FALSE
    /\ FolderCells("/")
    /\ validations' = <<>>
    /\ browses' = <<>>

\* "Select Folder": onSelectFolder(selectedFolder.path); onClose()
handleConfirmSelection ==
    /\ ConfirmEnabled
    /\ handedOver' = selectedFolder
    /\ Unmount
    /\ UNCHANGED outsideFolder

\* Cancel, or the X of the header
CloseFolderBrowser ==
    /\ fbOpen
    /\ Unmount
    /\ UNCHANGED handedOver
    /\ UNCHANGED outsideFolder

FolderIdle ==
    /\ fbOpen = FALSE
    /\ currentPath = "/"
    /\ items = "none"
    /\ fbLoading = TRUE
    /\ selectedFolder = "null"
    /\ parentPath = "null"
    /\ allowedBasePaths = {}
    /\ validationResult = NoValidation
    /\ validations = <<>>
    /\ browses = <<>>
    /\ handedOver = "none"

\* --------------------------------------------------------------- UploadPage
\* files the user picks in one visit of the page
MaxFiles == 3

FileIds == 1..MaxFiles

\* the file input's onChange: setFiles(prev => [...prev, ...newFiles])
handleFileChange ==
    /\ picked < MaxFiles
    /\ picked' = picked + 1
    /\ files' = Append(files, picked + 1)
    /\ UNCHANGED <<uploading, results, queue, pos>>
    /\ UNCHANGED outsideUpload

\* setFiles(prev => prev.filter((_, i) => i !== index))
removeFile(index) ==
    /\ index \in 1..Len(files)
    /\ files' = Remove(files, index)
    /\ UNCHANGED <<uploading, results, queue, pos, picked>>
    /\ UNCHANGED outsideUpload

\* the Upload button (rendered when files.length > 0, disabled={uploading}):
\* handleUpload up to its first await; the loop runs over the `files` of the
\* render of the click
handleUpload ==
    /\ Len(files) > 0
    /\ ~uploading
    /\ uploading' = TRUE
    /\ results' = <<>>
    /\ queue' = files
    /\ pos' = 1
    /\ UNCHANGED <<files, picked>>
    /\ UNCHANGED outsideUpload

\* uploadResume settles: a result entry for the file, then the next file, or
\* after the last one setUploading(false); setFiles([])
SettleUpload(ok) ==
    /\ pos >= 1
    /\ results' = Append(results, [file |-> queue[pos],
                                   status |-> IF ok THEN "done" ELSE "error"])
    /\ IF pos < Len(queue)
       THEN /\ pos' = pos + 1
            /\ UNCHANGED <<files, uploading, queue>>
       ELSE /\ pos' = 0
            /\ queue' = <<>>
            /\ uploading' = FALSE
            /\ files' = <<>>
    /\ UNCHANGED picked
    /\ UNCHANGED outsideUpload

UploadIdle ==
    /\ files = <<>>
    /\ uploading = FALSE
    /\ results = <<>>
    /\ queue = <<>>
    /\ pos = 0
    /\ picked = 0

\* the components outside a specification's scope, as constructed
ComponentsIdle ==
    /\ ScreenIdle
    /\ srvStatus = InitialBatches
    /\ userRole = "admin"
    /\ FolderIdle
    /\ UploadIdle

\* ------------------------------------------------------- specifications
ProviderIdle ==
    /\ effectRan = FALSE
    /\ calls = [c \in CallIds |-> IdleCall]
    /\ running = 0
    /\ lastOutcome = "none"
    /\ beforeSettle = NoSnapshot
    /\ successSeen = FALSE
    /\ usersPage = "unmounted"

PermInit ==
    /\ token \in {"none", "tok"}
    /\ user = IF token = "none" THEN "none" ELSE "profile"
    /\ pendingNav = "none"
    /\ InitialCells
    /\ ProviderIdle
    /\ autoBatch \in BOOLEAN
    /\ WsIdle
    /\ RestIdle
    /\ path = "app"
    /\ ComponentsIdle

PermNext ==
    \/ MountEffect
    \/ refreshPermissions
    \/ \E c \in CallIds, data \in ResponseData : FetchResolve(c, data)
    \/ \E c \in CallIds : SetRoleStep(c)
    \/ \E c \in CallIds : FinallyStep(c)
    \/ \E c \in CallIds, kind \in RejectKinds : FetchReject(c, kind)
    \/ Reload
    \/ LoginOk
    \/ handleLogout
    \/ logoutOtherTab
    \/ UsersPageMount
    \/ loadUsers
    \/ UsersPageUnmount

SpecPerm == PermInit /\ [][PermNext]_vars

\* React runs the mount effect of a mounted provider; a continuation that has
\* started runs to its end; a request that keeps being issued is answered
\* (one dropped by a reload of the document is not)
PermFairness ==
    /\ WF_vars(MountEffect)
    /\ SF_vars(\/ \E c \in CallIds, data \in ResponseData : FetchResolve(c, data)
               \/ \E c \in CallIds, kind \in RejectKinds : FetchReject(c, kind))
    /\ WF_vars(\E c \in CallIds : SetRoleStep(c))
    /\ WF_vars(\E c \in CallIds : FinallyStep(c))

SpecPermFair == PermInit /\ [][PermNext]_vars /\ PermFairness

WsInit ==
    /\ token = "tok"
    /\ user = "profile"
    /\ pendingNav = "none"
    /\ InitialCells
    /\ ProviderIdle
    /\ autoBatch = TRUE
    /\ WsIdle
    /\ RestIdle
    /\ path = "app"
    /\ ComponentsIdle

SpecWS == WsInit /\ [][WsNext]_vars

\* the connection of one hook and its sendMessage, on two of the pages and
\* with two of the frame types
ChanPages == {"jobs", "activity"}
ChanFrameTypes == {"job_created", "unknown_type"}

ChanNext ==
    \/ \E p \in ChanPages, s \in SocketIds : MountPage(p, s)
    \/ \E s \in SocketIds : UnmountPage(s)
    \/ \E s \in SocketIds : OnOpen(s)
    \/ \E s \in SocketIds, type \in ChanFrameTypes : OnMessage(s, type, 1)
    \/ \E s \in SocketIds : OnMessageUnmounted(s)
    \/ \E s \in SocketIds : OnClose(s)
    \/ \E s \in SocketIds : OnError(s)
    \/ sendMessage

SpecChan == WsInit /\ [][ChanNext]_vars

RestInit ==
    /\ token \in {"none", "tok"}
    /\ user = IF token = "none" THEN "none" ELSE "profile"
    /\ path = IF token = "none" THEN "/login" ELSE "app"
    /\ pendingNav = "none"
    /\ RestIdle
    /\ InitialCells
    /\ ProviderIdle
    /\ autoBatch = TRUE
    /\ WsIdle
    /\ ComponentsIdle

RestNext ==
    \/ \E r \in ReqIds, call \in ApiCalls \cup AxiosCalls \cup AuthCalls :
            Issue(r, call)
    \/ \E r \in ReqIds, status \in Statuses : RespondApi(r, status)
    \/ \E r \in ReqIds, status \in Statuses : RespondAxios(r, status)
    \/ \E r \in ReqIds, status \in Statuses, withToken \in BOOLEAN :
            RespondLogin(r, status, withToken)
    \/ Navigate
    \/ handleLogout
    \/ logoutOtherTab

SpecRest == RestInit /\ [][RestNext]_vars

ScreenInit ==
    /\ token = "tok"
    /\ user = "profile"
    /\ pendingNav = "none"
    /\ InitialCells
    /\ ProviderIdle
    /\ autoBatch = TRUE
    /\ WsIdle
    /\ RestIdle
    /\ path = "app"
    /\ ScreenIdle
    /\ srvStatus = InitialBatches
    /\ userRole \in {"admin", "recruiter"}
    /\ FolderIdle
    /\ UploadIdle

\* an administrator's session
AdminInit == ScreenInit /\ userRole = "admin"

\* the reads every specification of ScreeningPage has
ReadsNext ==
    \/ ScreeningPageMount
    \/ \E f \in FetchIds : Serve(f)
    \/ \E f \in FetchIds : ResolveBatches(f)
    \/ \E f \in FetchIds : ResolvePotentials(f)
    \/ \E f \in FetchIds : RejectFetch(f)

\* batch lifecycle changes by other users, their events, the selector
ScreenNext ==
    \/ ReadsNext
    \/ \E action \in {"pause", "cancel", "delete"}, b \in BatchIds :
            OtherUser(action, b)
    \/ OnScreeningMessage
    \/ \E b \in BatchIds : SelectBatchOption(b)

SpecScreen == AdminInit /\ [][ScreenNext]_vars

\* overlapping potentials reads: the Refresh button and potential events
PotentialsNext ==
    \/ ReadsNext
    \/ \E b \in BatchIds : OtherUser("promote", b)
    \/ OnScreeningMessage
    \/ Refresh

SpecPotentials == AdminInit /\ [][PotentialsNext]_vars

\* the selector, Previous / Next and Refresh
PagingNext ==
    \/ ReadsNext
    \/ \E b \in BatchIds : SelectBatchOption(b)
    \/ \E next \in BOOLEAN : TurnPage(next)
    \/ Refresh

SpecPaging == AdminInit /\ [][PagingNext]_vars

\* BatchActionButtons under batch changes by other users
BatchActionsNext ==
    \/ ReadsNext
    \/ \E action \in {"cancel", "delete"}, b \in BatchIds :
            OtherUser(action, b)
    \/ OnScreeningMessage
    \/ \E action \in BatchActions : ClickButton(action)
    \/ \E confirm \in BOOLEAN : ClickModal(confirm)
    \/ \E ok \in BOOLEAN : ServeAction(ok)
    \/ SettleAction

SpecBatchActions == ScreenInit /\ [][BatchActionsNext]_vars

FolderNext ==
    \/ OpenFolderBrowser
    \/ \E i \in 1..MaxBrowses, ok \in BOOLEAN : RespondBrowse(i, ok)
    \/ \E p \in FolderPaths : handleFolderSelect(p)
    \/ \E p \in FolderPaths : handleFolderClick(p)
    \/ handleGoUp
    \/ \E p \in FolderPaths : handleSelectQuickPath(p)
    \/ \E p \in FolderPaths : ClickBreadcrumb(p)
    \/ \E i \in 1..MaxValidations, ok \in BOOLEAN : RespondValidate(i, ok)
    \/ handleConfirmSelection
    \/ CloseFolderBrowser

SpecFolder == AdminInit /\ [][FolderNext]_vars

UploadNext ==
    \/ handleFileChange
    \/ \E index \in FileIds : removeFile(index)
    \/ handleUpload
    \/ \E ok \in BOOLEAN : SettleUpload(ok)

SpecUpload == AdminInit /\ [][UploadNext]_vars

\* ------------------------------------------------------------------ claims
AnyGranted == \E a \in ActionKeys : hasPermission(a)
RefreshInFlight ==
    \E c \in CallIds : calls[c].pc = "fetching" /\ calls[c].fromReady

\* C1: from the moment refresh() is called in a READY state until its fetch
\* resolves, hasPermission(a) is false for every action a.
C1_DeniedWhileRefreshing == RefreshInFlight => ~AnyGranted

C3_UnmountClosesOnce ==
    [][ /\ \A s \in SocketIds :
              (~sockets'[s].mounted
                 /\ sockets'[s].atUnmount \in {"CONNECTING", "OPEN"})
              => sockets'[s].closeCalls = 1
        /\ (page = "none" /\ page' = "none") => lastMessage' = lastMessage
      ]_vars

\* C4: across any sequence of page mounts and unmounts, at most one Live
\* Update Channel connection is connecting or open.
C4_SingleLiveConnection == Cardinality(LiveSockets) <= 1

\* C5: withPermission(Component, p) shows the loading placeholder while
\* loading, the access-denied view after a load without p, and Component only
\* when loading is false and the stored capability p is exactly true.
C5_WithPermissionGate ==
    \A p \in ActionKeys :
        /\ loading => withPermission(p) = "loading_placeholder"
        /\ (~loading /\ ~hasPermission(p)) => withPermission(p) = "access_denied"
        /\ withPermission(p) = "component" =>
              (~loading /\ permissions.kind = "object"
                        /\ permissions.map[p] = "true")

C5_Witness ==
    /\ ~loading
    /\ withPermission("view_candidates") = "component"
    /\ withPermission("manage_users") = "access_denied"

\* C6: while the permission load is in flight (loading = true) no view that
\* consumes the store shows an access-denied message.
C6_NoDenialWhileLoading ==
    loading =>
        /\ \A p \in ActionKeys : withPermission(p) # "access_denied"
        /\ usersPage # "unmounted" => UsersPageRender # "access_denied"

\* the request a page is keyed to re-issue for a frame type
KeyedFetch(p, type) ==
    CASE p = "screening" /\ type \in BatchEvents -> "loadBatches"
      [] p = "screening" /\ type \in PotentialEvents -> "loadPotentials"
      [] p = "candidates" /\ type = "new_comment" -> "loadCandidateDetails"
      [] p = "candidates"
           /\ type \in BlacklistEvents \cup {"new_candidate", "status_change"}
           -> "loadCandidates"
      [] p = "jobs" /\ type = "job_created" -> "loadJobs"
      [] p = "blacklist" /\ type \in BlacklistEvents -> "loadBlacklist"
      [] p = "analytics" /\ type = "new_candidate" -> "loadData"
      [] p = "activity" /\ type \in FrameTypes -> "loadActivities"
      [] OTHER -> "none"

\* the mounted page is keyed to the current lastMessage (a comment event
\* concerns the open candidate, a potential event the selected batch)
KeyedToLastMessage ==
    /\ page # "none"
    /\ KeyedFetch(page, lastMessage.type) # "none"
    /\ lastMessage.type = "new_comment" => lastMessage.id = selectedCandidate
    /\ lastMessage.type \in PotentialEvents => selectedBatch # 0

\* C7: for every inbound frame whose type the mounted page is keyed to,
\* lastMessage is that frame and the page's re-fetch for it has been issued
\* exactly once: not zero times, and not again when another dependency of the
\* effect (the selected candidate) changes later.
C7_RefetchExactlyOnce ==
    KeyedToLastMessage =>
        /\ lastMessage.seq = frameSeq
        /\ fetched[KeyedFetch(page, lastMessage.type)] = 1

\* C8: a frame whose type no subscriber filters on still becomes lastMessage,
\* but for a page that filters by type it issues no request, neither when it
\* arrives nor when the effect runs again later, and its arrival changes no
\* selection of the page.
C8_UnknownTypeNoRefetch ==
    [][ (page' \in FilteringPages /\ lastMessage'.type = "unknown_type") =>
            /\ lastMessage'.seq = frameSeq'
            /\ fetched' = NoFetches
            /\ lastMessage' # lastMessage =>
                  /\ lastMessage'.seq = lastMessage.seq + 1
                  /\ selectedCandidate' = selectedCandidate
                  /\ selectedBatch' = selectedBatch
      ]_vars

C8_Witness ==
    /\ page = "candidates"
    /\ selectedCandidate = 1
    /\ lastMessage.type = "unknown_type"
    /\ lastMessage.seq = 2

\* C9: every REST response with status 401, whichever client and view issued
\* the request, removes the token and the cached user profile from storage
\* and redirects to the login view (or the login view is already shown).
C9_Every401ClearsSession ==
    [][ \A r \in ReqIds :
            (\/ RespondApi(r, "401")
             \/ RespondAxios(r, "401")
             \/ \E withToken \in BOOLEAN : RespondLogin(r, "401", withToken))
            => /\ token' = "none"
               /\ user' = "none"
               /\ pendingNav' = "/login" \/ path' = "/login"
      ]_vars

\* C10: hasPermission(a) is true only when the loaded capability set maps a
\* to exactly true; it is false when nothing is loaded, when a is absent and
\* when a maps to false or to any other value.
C10_ExplicitTrueOnly ==
    \A a \in ActionKeys :
        /\ permissions.kind \in {"null", "undefined"} => ~hasPermission(a)
        /\ permissions.map[a] \in {"absent", "false", "other"} => ~hasPermission(a)
        /\ hasPermission(a) <=>
              (permissions.kind = "object" /\ permissions.map[a] = "true")

C10_Witness ==
    /\ permissions.kind = "object"
    /\ permissions.map["manage_users"] = "other"
    /\ permissions.map["view_candidates"] = "absent"
    /\ ~loading

\* C11: when load() or refresh() runs with no credential in storage, no
\* permissions request is issued, loading becomes false, and afterwards
\* hasPermission is false for every action, also when an earlier load had
\* granted capabilities.
C11_NoCredentialDeniesAll ==
    [][ (token = "none" /\ (MountEffect \/ refreshPermissions)) =>
            /\ calls' = calls
            /\ ~loading'
            /\ \A a \in ActionKeys : ~(hasPermission(a))'
      ]_vars

\* a body of the shape { permissions: {action: bool, ...}, role: string }
WellFormed(data) ==
    /\ data.permissions.kind = "object"
    /\ \A a \in ActionKeys : data.permissions.map[a] \in {"true", "false", "absent"}
    /\ data.role \notin {"null", "undefined"}

\* C12: on any failure of the permissions fetch (network error, 401,
\* malformed payload) the capability set and the role are left exactly as they
\* were before, and a failure that throws changes only loading, to false.
C12_FailureLeavesCells ==
    [][ \A c \in CallIds :
          /\ (\E kind \in RejectKinds : FetchReject(c, kind)) =>
                /\ permissions' = permissions
                /\ role' = role
                /\ ~loading'
          /\ (\E data \in ResponseData :
                  ~WellFormed(data) /\ FetchResolve(c, data)) =>
                /\ permissions' = permissions
                /\ role' = role
      ]_vars

\* C13: every load() eventually leaves the LOADING state: with no credential,
\* on a fetch success and on a fetch failure, loading becomes false once the
\* request settles.
C13_LoadingEnds == loading ~> ~loading

C13_Witness ==
    /\ lastOutcome = "error"
    /\ ~successSeen
    /\ ~loading
    /\ permissions = NullPermissions

\* C14: calling refresh() while the store is READY moves it back to LOADING:
\* loading is true for as long as the refresh's fetch has not settled.
C14_RefreshReentersLoading == RefreshInFlight => loading

MaxListLen == 2
ActionLists == UNION { [1..n -> ActionKeys] : n \in 0..MaxListLen }

\* C16: hasAnyPermission(actions) is the OR and hasAllPermissions(actions) the
\* AND of hasPermission over the listed actions, for every capability set and
\* every action list; with {view_candidates: true, manage_users: false} the
\* list [manage_users, view_candidates] has hasAny true and hasAll false.
C16_AnyIsOrAllIsAnd ==
    /\ \A l \in ActionLists :
          /\ hasAnyPermission(l) = (\E i \in DOMAIN l : hasPermission(l[i]))
          /\ hasAllPermissions(l) = (\A i \in DOMAIN l : hasPermission(l[i]))
    /\ permissions = Caps("false", "true") =>
          /\ hasAnyPermission(<<"manage_users", "view_candidates">>)
          /\ ~hasAllPermissions(<<"manage_users", "view_candidates">>)

C16_Witness ==
    /\ permissions = Caps("false", "true")
    /\ ~loading
    /\ hasAnyPermission(<<"manage_users", "view_candidates">>)

\* C17: Can renders nothing (neither children nor fallback) while loading;
\* after the load it renders children iff hasPermission(action) and otherwise
\* the fallback, which is nothing when omitted; with no loaded permissions
\* and no fallback it renders nothing.
C17_CanGate ==
    \A a \in ActionKeys, f \in Fallbacks :
        /\ loading => Can(a, f) = "null"
        /\ ~loading => Can(a, f) = IF hasPermission(a) THEN "children" ELSE f
        /\ permissions.kind # "object" => Can(a, "null") = "null"

C17_Witness ==
    /\ ~loading
    /\ Can("view_candidates", "fallback") = "children"
    /\ Can("manage_users", "fallback") = "fallback"
    /\ Can("manage_users", "null") = "null"

\* C18: RoleOnly renders nothing while loading; after the load it renders
\* children iff the cached role is one of the given roles and otherwise the
\* fallback (nothing when omitted); with no role loaded it never renders
\* children.
C18_RoleOnlyGate ==
    \A rs \in RoleLists, f \in Fallbacks :
        /\ loading => RoleOnly(rs, f) = "null"
        /\ ~loading => RoleOnly(rs, f) = IF role \in rs THEN "children" ELSE f
        /\ role \in {"null", "undefined"} => RoleOnly(rs, f) # "children"

C18_Witness ==
    /\ ~loading
    /\ role = "recruiter"
    /\ RoleOnly({"admin", "recruiter"}, "fallback") = "children"
    /\ RoleOnly({"admin", "hr_manager"}, "fallback") = "fallback"
    /\ RoleOnly({"admin"}, "null") = "null"

\* C19: sendMessage(message) transmits only when the connection is open at
\* the time of the call; in every other state (not yet open, closed, errored)
\* the call does nothing, and no later step transmits the message.
C19_SendOnlyWhenOpen ==
    [][ /\ sent' # sent =>
              /\ sendMessage
              /\ ws # 0
              /\ sockets[ws].readyState = "OPEN"
              /\ sent' = sent + 1
        /\ ignored' # ignored => (sendMessage /\ sent' = sent)
      ]_vars

C19_Witness ==
    /\ sent = 1
    /\ ignored = 1
    /\ ws # 0
    /\ sockets[ws].mounted
    /\ sockets[ws].readyState = "CLOSED"

\* C20: after the connection of a mounted hook closes or errors, no other
\* connection is opened while that page stays mounted, isConnected stays
\* false, and lastMessage is not changed by the drop or after it.
C20_NoReconnect ==
    [][ /\ (page # "none" /\ page' = page) =>
              \A s \in SocketIds :
                  sockets[s].readyState = "NONE" =>
                      sockets'[s].readyState = "NONE"
        /\ \A s \in SocketIds :
              (sockets[s].mounted /\ sockets'[s].mounted
                 /\ sockets'[s].readyState = "CLOSED")
              => (~isConnected' /\ lastMessage' = lastMessage)
      ]_vars

C20_Witness ==
    /\ page # "none"
    /\ ws # 0
    /\ sockets[ws].mounted
    /\ sockets[ws].readyState = "CLOSED"
    /\ ~isConnected
    /\ lastMessage.seq > 0

\* C21: a live event is only a cache-invalidation signal: the frame a page
\* receives issues requests, and no field of its payload is written into, or
\* directly decides, a cell of the view (the selected batch, the selected
\* candidate); view state changes only through the re-issued REST reads.
C21_EventOnlyInvalidates ==
    [][ (\E s \in SocketIds, type \in FrameTypes, id \in Ids :
            OnMessage(s, type, id))
        => /\ selectedBatch' = selectedBatch
           /\ selectedCandidate' = selectedCandidate
      ]_vars

\* C22: when two potentials reads overlap, neither is cancelled, and the
\* potentials shown after a read resolves are the body of that read, whatever
\* order the reads were issued in: the read that resolves last decides the
\* view state.
C22_LastResolvedWins ==
    [][ \A f \in FetchIds :
            ResolvePotentials(f) =>
                /\ potentials' = [batch |-> fetches[f].batchId,
                                  page |-> fetches[f].page,
                                  rev |-> fetches[f].rev]
                /\ totalCount' = total(fetches[f].batchId)
                /\ \A g \in FetchIds \ {f} :
                      /\ fetches'[g].kind = fetches[g].kind
                      /\ fetches'[g].pc = fetches[g].pc
      ]_vars

C22_Witness ==
    /\ potLog.phase = "earlierLast"
    /\ potentials.rev < potLog.rev
    /\ \A f \in FetchIds : fetches[f].kind = "none"

\* C23: a failure of a user action's REST call other than 401 is surfaced in
\* the initiating view as a user-visible message; token, cached profile and
\* permission state are unchanged and nothing redirects; on 409 the candidate
\* details are read again and the action is not sent again.
C23_FailureSurfacedLocally ==
    [][ \A r \in ReqIds, status \in Statuses \ {"200", "401"} :
            (requests[r] \in ActionCalls /\ RespondApi(r, status)) =>
                /\ notice' # "none"
                /\ UNCHANGED <<token, user, pendingNav, path, permVars>>
                /\ requests'[r] \notin ActionCalls
                /\ (requests[r] = "updateCandidateStatus" /\ status = "409")
                      => requests'[r] = "getCandidate"
      ]_vars

\* C24: the session in browser storage is created only by a login answered
\* with an access_token, which stores token and user profile together, and is
\* destroyed only by logout and by a 401 response, which remove both: the
\* token is present iff the cached user profile is present.
C24_TokenIffUser ==
    [][ /\ (token = "none") <=> (user = "none")
        /\ (token' = "none") <=> (user' = "none")
        /\ (token = "none" /\ token' # "none") =>
              \E r \in ReqIds : RespondLogin(r, "200", TRUE)
        /\ (token # "none" /\ token' = "none") =>
              \/ handleLogout
              \/ logoutOtherTab
              \/ \E r \in ReqIds : RespondApi(r, "401")
      ]_vars

C24_Witness ==
    /\ token = "tok"
    /\ user = "profile"
    /\ notice = "login_error"
    /\ pendingNav = "/"

\* C25: BatchActionButtons offers Pause only when batch.status is
\* 'processing', Resume only when 'paused', Cancel only when 'processing' or
\* 'paused', Delete only when the status is 'ready', 'completed', 'cancelled'
\* or 'error' and userRole is 'admin'; with no batch nothing is offered and no
\* request is sent.
C25_OfferedOnlyWhenAllowed ==
    /\ "pause" \in Offered => selectedStatus = "processing"
    /\ "resume" \in Offered => selectedStatus = "paused"
    /\ "cancel" \in Offered => selectedStatus \in {"processing", "paused"}
    /\ "delete" \in Offered =>
          /\ selectedStatus \in {"ready", "completed", "cancelled", "error"}
          /\ userRole = "admin"
    /\ selectedBatch = 0 => Offered = {}
    /\ bab.pc = "sent" => bab.batchId # 0

\* C26: when a loadBatches triggered by a batch lifecycle change
\* (handleBatchUpdated, or a batch_paused / batch_resumed / batch_cancelled
\* event) completes, the selected batch carries the same status as that batch
\* in the freshly loaded list.
C26_SelectedStatusFresh ==
    [][ \A f \in FetchIds :
            (ResolveBatches(f) /\ fetches[f].sel # 0 /\ selectedBatch' # 0)
                => selectedStatus' = batches'[selectedBatch']
      ]_vars

\* C27: once a batch_deleted event for the selected batch has been handled
\* and the loadBatches it triggered has resolved, the selected batch is never
\* the deleted batch: it is null or a batch of the reloaded list, and the
\* event handler issues no potentials request for the deleted batch.
C27_DeletedNeverSelected ==
    [][ /\ deletedHandled' # 0 => selectedBatch' # deletedHandled'
        /\ (deletedHandled' # 0 /\ selectedBatch' # 0) =>
              batches'[selectedBatch'] # "absent"
        /\ (/\ OnScreeningMessage
            /\ Head(inbox).type = "batch_deleted"
            /\ Head(inbox).id = selectedBatch)
           => \A f \in FetchIds :
                (fetches[f].kind = "none" /\ fetches'[f].kind = "loadPotentials")
                    => fetches'[f].batchId # selectedBatch
      ]_vars

\* C28: whenever Previous / Next changes currentPage, the potentials request
\* issued for the selected batch asks for page = currentPage; and currentPage
\* stays within 1..max(1, ceil(totalCount / 100)).
C28_PageRequested ==
    [][ /\ currentPage' \in 1..Max(1, PageCount(totalCount'))
        /\ (\E next \in BOOLEAN : TurnPage(next)) =>
              /\ \E f \in FetchIds :
                    /\ fetches[f].kind = "none"
                    /\ fetches'[f].kind = "loadPotentials"
              /\ \A f \in FetchIds :
                    (/\ fetches[f].kind = "none"
                     /\ fetches'[f].kind = "loadPotentials")
                    => /\ fetches'[f].batchId = selectedBatch'
                       /\ fetches'[f].page = currentPage'
      ]_vars

\* C29: a folder path is handed to onSelectFolder only if a validation
\* response with valid = true was received for that same folder: whenever
\* confirmation is enabled the stored validationResult belongs to the
\* currently selected folder.
C29_ValidationOfSelected ==
    [][ /\ ConfirmEnabled' => validationResult'.of = selectedFolder'
        /\ handleConfirmSelection => validationResult.of = handedOver'
      ]_vars

\* C30: handleUpload uploads the selected files one at a time in list order;
\* every selected file yields exactly one result entry (its response or an
\* error entry), a failed upload does not stop the remaining files, and when
\* it finishes the file list is empty and uploading is false, with no
\* selected file dropped without a result.
C30_EveryFileOneResult ==
    [][ /\ uploading' =>
              \A k \in 1..Len(results') : results'[k].file = queue'[k]
        /\ (uploading /\ ~uploading') =>
              /\ files' = <<>>
              /\ \A i \in 1..Len(files) :
                    Cardinality({k \in 1..Len(results') :
                                    results'[k].file = files[i]}) = 1
      ]_vars

====
